---- MODULE Spec2Model ----
(***************************************************************************)
(* Filtering and selection engine of the SiteMap component.                *)
(*                                                                         *)
(* Two implementations are modelled, told apart by the variable `variant`: *)
(*   "doc_id" : src/unnamed/part_000   (selection keyed by doc_id)         *)
(*   "id"     : src/src/SiteMap_v4.js  (selection keyed by id)             *)
(*                                                                         *)
(* React state (useState), the useMemo value filteredData, the map ref and *)
(* the map source are the variables.  Every event handler is one action:   *)
(* the state updates of the handler and the re-render that follows it      *)
(* (which recomputes filteredData) happen in the same step.  The passive   *)
(* effects (useEffect) that the re-render schedules run in a step of their *)
(* own, FlushEffects, and are flushed before the next event is handled.    *)
(*                                                                         *)
(* A nullable value is a sequence of length 0 (null) or 1 (the value).     *)
(***************************************************************************)
EXTENDS Integers, Sequences, FiniteSets, TLC

VARIABLES
    variant,          \* which implementation runs
    received,         \* the response body as the server sent it
    fetch,            \* state of the promise chain of the load effect
    raw,              \* the parsed payload object `raw` (null until parsed)
    data,             \* useState data
    selectedSite,     \* useState selectedSite
    selectedBuilding, \* useState selectedBuildingDocId / selectedBuilding
    selectedPeriod,   \* useState selectedPeriod
    filters,          \* useState filters
    filteredData,     \* useMemo filteredData (.features)
    map,              \* map.current: "none", "created", "loaded"
    src,              \* data held by the map source 'sites'
    pendingInit,      \* the effect with deps [data] is scheduled
    pendingSync,      \* the effect with deps [filteredData, selected...] is scheduled
    crashed           \* a render threw: the component tree is unmounted

vars == <<variant, received, fetch, raw, data, selectedSite, selectedBuilding,
          selectedPeriod, filters, filteredData, map, src, pendingInit, pendingSync,
          crashed>>

----------------------------------------------------------------------------
(* Bounds *)

\* cap on the number of filter values that are active at the same time
MaxActive == 3

----------------------------------------------------------------------------
(* Values *)

None == "<none>"          \* null for the string-valued state
Null == <<>>              \* null for the structured state
Some(x) == <<x>>

NullTag == "<null>"       \* a JSON null inside an attribute array
NumberTag == "<number>"   \* a JSON number inside an attribute array (truthy non-string)

Min(S) == CHOOSE x \in S : \A y \in S : x <= y

Range(s) == { s[i] : i \in 1..Len(s) }

\* Array.prototype.includes / some over a sequence
Includes(s, v) == \E i \in 1..Len(s) : s[i] = v

----------------------------------------------------------------------------
(* Static tables *)

timelineSegments ==
    << [id |-> "archaic",
        tags |-> <<"Archaic", "Late Archaic", "Peisistratid">>],
       [id |-> "classical",
        tags |-> <<"Early Classical", "Periclean", "Classical", "Lycurgan Period",
                   "Late Classical">>],
       [id |-> "hellenistic",
        tags |-> <<"Hellenistic", "Early Hellenistic", "Late Hellenistic", "Seleucid",
                   "Ptolemaic", "Pergamene">>],
       [id |-> "republican",
        tags |-> <<"Early Republican", "Middle Republican", "Late Republican",
                   "Republican", "Sullan", "Caesarian Period", "Triumviral Period">>],
       [id |-> "earlyEmpire",
        tags |-> <<"Augustan", "Tiberian", "Julio-Claudian", "Flavian",
                   "Nerva-Trajanian", "Hadrian", "Antonine">>],
       [id |-> "lateEmpire",
        tags |-> <<"Severan", "Crisis of 3rd Century", "Diocletian-Tetrarch",
                   "Constantinian", "Late Roman", "Late Antique">>] >>

SegmentIds == { timelineSegments[i].id : i \in 1..Len(timelineSegments) }

allowedMorphologies ==
    { "prostyle", "amphiprostyle", "pseudoperipteral", "peripteral", "dipteral",
      "pseudodipteral", "distyle in antis", "tetrastyle", "hexastyle",
      "octastyle", "nonastyle", "peristyle", "linear", "U-shape", "L-shape" }

\* the attributes the sanitizer walks, in its order
SanitizedAttrs == <<"order", "morphology", "age", "date">>

\* the attributes the filter loop walks (and the buckets of useState filters)
FilterAttrs(var) ==
    IF var = "doc_id" THEN {"order", "morphology", "age"}
    ELSE {"order", "morphology", "age", "date"}

\* the attributes whose tags the building details render as toggle buttons
DetailAttrs(var) ==
    IF var = "doc_id" THEN {"order", "morphology", "age"}
    ELSE {"order", "morphology", "age", "date"}

\* the attributes that have a dropdown of options
DropdownAttrs == {"order", "morphology", "age"}

----------------------------------------------------------------------------
(* Payloads the server may send *)

Bldg(doc, id, o, m, a, d) ==
    [doc_id |-> doc, id |-> id, order |-> o, morphology |-> m, age |-> a, date |-> d]

\* clean records; the display id "Temple of Apollo" occurs under two sites
RawClean ==
    << [site |-> "Delphi",
        buildings |-> << Bldg("d1", "Temple of Apollo", <<"Doric">>, <<"peripteral">>,
                              <<"Classical">>, <<"330 BC">>),
                         Bldg("d2", "Tholos", <<"Ionic">>, <<"tholos">>,
                              <<"Archaic">>, <<>>) >>],
       [site |-> "Athens",
        buildings |-> << Bldg("d3", "Temple of Apollo", <<"Doric", "Ionic">>, <<>>,
                              <<"Archaic">>, <<>>) >>] >>

\* placeholder values to sanitize, and a site without buildings
RawDirty ==
    << [site |-> "Olympia", buildings |-> <<>>],
       [site |-> "Delphi",
        buildings |-> << Bldg("d1", "Treasury", <<"Undetermined", "Doric">>, <<"<NA>">>,
                              <<"", "Classical", NullTag>>, <<"undetermined">>),
                         Bldg("d2", "Stoa", <<"Ionic", "UNDETERMINED">>, <<"linear">>,
                              <<"Hellenistic">>, <<>>) >>] >>

\* a payload whose second building carries a number among its age tags
RawBroken ==
    << [site |-> "Delphi",
        buildings |-> << Bldg("d1", "Treasury", <<"Undetermined", "Doric">>, <<>>,
                              <<"Classical">>, <<>>),
                         Bldg("d2", "Stoa", <<"<NA>", "Ionic">>, <<>>,
                              <<NumberTag>>, <<"undetermined">>) >>] >>

Payloads == { RawClean, RawDirty, RawBroken }

----------------------------------------------------------------------------
(* Record Sanitizer: the .then(raw => ...) callback of the load effect *)

\* String.prototype.toLowerCase on the tags that occur in the payloads
toLowerCase(v) ==
    CASE v = "Undetermined" -> "undetermined"
      [] v = "UNDETERMINED" -> "undetermined"
      [] v = "<NA>"         -> "<na>"
      [] v = "Doric"        -> "doric"
      [] v = "Ionic"        -> "ionic"
      [] v = "Classical"    -> "classical"
      [] v = "Archaic"      -> "archaic"
      [] v = "Hellenistic"  -> "hellenistic"
      [] v = "330 BC"       -> "330 bc"
      [] OTHER              -> v

\* v is falsy: null or the empty string
Falsy(v) == v \in {NullTag, ""}

\* (variant of KeepTag: the comparison with 'undetermined' is case-sensitive)
KeepTag_CaseSensitive(v) == ~Falsy(v) /\ v # "undetermined" /\ v # "<NA>"

\* the filter callback: v && v.toLowerCase() !== 'undetermined' && v !== '<NA>'
KeepTag(v) == ~Falsy(v) /\ toLowerCase(v) # "undetermined" /\ v # "<NA>"

\* the callback throws on a truthy value that has no toLowerCase (a number),
\* so filtering an array throws iff the array holds one
FilterThrows(arr) == Includes(arr, NumberTag)

\* (variant of SanitizeArray: missing values are dropped, then "undetermined" is
\* rewritten to the missing-value marker instead of being dropped)
SanitizeArray_MarkThenDrop(arr) ==
    LET Present(v) == ~Falsy(v) /\ v # "<NA>"
        kept == SelectSeq(arr, Present)
    IN  [ k \in 1..Len(kept) |->
            IF toLowerCase(kept[k]) = "undetermined" THEN "<NA>" ELSE kept[k] ]

SanitizeArray(arr) == SelectSeq(arr, KeepTag)

\* (feature, building, attribute) positions in the order the loops visit them
Before(p, q) ==
    \/ p[1] < q[1]
    \/ p[1] = q[1] /\ p[2] < q[2]
    \/ p[1] = q[1] /\ p[2] = q[2] /\ p[3] < q[3]

Positions(ds) ==
    UNION { { <<i, j, a>> : j \in 1..Len(ds[i].buildings),
                            a \in 1..Len(SanitizedAttrs) } : i \in 1..Len(ds) }

AttrAt(ds, p) == ds[p[1]].buildings[p[2]][SanitizedAttrs[p[3]]]

ThrowingPositions(ds) == { p \in Positions(ds) : FilterThrows(AttrAt(ds, p)) }

\* the position at which the loops stop with an exception; past the end if none
StopPosition(ds) ==
    IF ThrowingPositions(ds) = {} THEN <<Len(ds) + 1, 1, 1>>
    ELSE CHOOSE p \in ThrowingPositions(ds) :
             \A q \in ThrowingPositions(ds) : q = p \/ Before(p, q)

\* the payload object after the loops ran up to (not including) position stop:
\* b[attr] = b[attr].filter(...) assigns in place
SanitizedUpTo(ds, stop) ==
    [ i \in 1..Len(ds) |->
        [ site |-> ds[i].site,
          buildings |->
            [ j \in 1..Len(ds[i].buildings) |->
                LET b == ds[i].buildings[j]
                    San(a) == IF Before(<<i, j, a>>, stop)
                              THEN SanitizeArray(b[SanitizedAttrs[a]])
                              ELSE b[SanitizedAttrs[a]]
                IN  [ doc_id |-> b.doc_id, id |-> b.id,
                      order |-> San(1), morphology |-> San(2),
                      age |-> San(3), date |-> San(4) ] ] ] ]

SanitizeThrows(ds) == ThrowingPositions(ds) # {}

\* the contents of the object `raw` when the callback returns or throws
SanitizeInPlace(ds) == SanitizedUpTo(ds, StopPosition(ds))

----------------------------------------------------------------------------
(* Filter Engine: useMemo filteredData *)

\* timelineSegments.find(s => s.id === period): undefined or the first match
find(period) ==
    LET hits == { k \in 1..Len(timelineSegments) : timelineSegments[k].id = period }
    IN  IF hits = {} THEN Null ELSE Some(timelineSegments[Min(hits)])

\* reading .tags of undefined throws a TypeError
LookupThrows(period) == find(period) = Null

\* new Set(timelineSegments.find(s => s.id === selectedPeriod).tags)
periodTags(period) == Range(find(period)[1].tags)

\* selectedPeriod ? ... : null   (null and the empty string are falsy)
PeriodTruthy(period) == period \notin {None, ""}

\* the useMemo callback throws during render: data is set, the period is truthy
\* and the lookup of its segment throws
RenderThrows(d, period) == d # Null /\ PeriodTruthy(period) /\ LookupThrows(period)

\* (variant of PassesAttr: every selected value must be a tag of the building)
PassesAttr_Every(b, attr, set) ==
    set = {} \/ \A v \in set : Includes(b[attr], v)

\* (variant of PassesAttr: an empty set is a constraint that nothing meets)
PassesAttr_NoEmptyCase(b, attr, set) ==
    \E v \in set : Includes(b[attr], v)

\* set.size && ![...set].some(v => b[attr].includes(v)) is the failing case
PassesAttr(b, attr, set) ==
    set = {} \/ \E v \in set : Includes(b[attr], v)

\* periodTags && !b.age.some(tag => periodTags.has(tag)) is the failing case
PassesPeriod(b, period) ==
    period = None \/ \E k \in 1..Len(b.age) : b.age[k] \in periodTags(period)

\* the callback of f.properties.buildings.filter
BuildingPasses(b, fs, period) ==
    /\ \A attr \in DOMAIN fs : PassesAttr(b, attr, fs[attr])
    /\ PassesPeriod(b, period)

\* (variant of KeepSite: a site is kept with an empty building list)
KeepSite_All(f) == TRUE

\* .map(f => bs.length ? {...f, buildings: bs} : null).filter(Boolean)
KeepSite(f) == Len(f.buildings) > 0

ComputeFiltered(d, fs, period) ==
    IF d = Null THEN <<>>
    ELSE LET Test(b) == BuildingPasses(b, fs, period)
             mapped == [ i \in 1..Len(d[1]) |->
                           [ site |-> d[1][i].site,
                             buildings |-> SelectSeq(d[1][i].buildings, Test) ] ]
         IN  SelectSeq(mapped, KeepSite)

----------------------------------------------------------------------------
(* Values computed during render *)

\* the key by which the implementation identifies the selected building
Key(b) == IF variant = "doc_id" THEN b.doc_id ELSE b.id

\* features.find(f => f.properties.site === site): null or the first match
FindSite(features, site) ==
    LET hits == { i \in 1..Len(features) : features[i].site = site }
    IN  IF hits = {} THEN Null ELSE Some(features[Min(hits)])

siteFeat == FindSite(filteredData, selectedSite)

\* (variant of buildingObj: the building is looked up in the canonical dataset)
buildingObj_FromCanonical ==
    IF data = Null \/ FindSite(data[1], selectedSite) = Null THEN Null
    ELSE LET bs == FindSite(data[1], selectedSite)[1].buildings
             hits == { j \in 1..Len(bs) : Key(bs[j]) = selectedBuilding }
         IN  IF hits = {} THEN Null ELSE Some(bs[Min(hits)])

\* siteFeat?.properties.buildings.find(b => key(b) === selected)
buildingObj ==
    IF siteFeat = Null THEN Null
    ELSE LET bs == siteFeat[1].buildings
             hits == { j \in 1..Len(bs) : Key(bs[j]) = selectedBuilding }
         IN  IF hits = {} THEN Null ELSE Some(bs[Min(hits)])

originalSiteFeat ==
    IF selectedSite # None /\ data # Null THEN FindSite(data[1], selectedSite) ELSE Null

originalBuildings ==
    IF originalSiteFeat = Null THEN <<>> ELSE originalSiteFeat[1].buildings

visibleDocIds ==
    IF siteFeat = Null THEN {}
    ELSE { siteFeat[1].buildings[j].doc_id : j \in 1..Len(siteFeat[1].buildings) }

\* the tag strings of the payloads in ascending order of UTF-16 code units, the
\* order Array.prototype.sort() uses without a comparator
CodeUnitOrder ==
    << "", "330 BC", "<NA>", "Archaic", "Classical", "Doric", "Hellenistic", "Ionic",
       "UNDETERMINED", "Undetermined", "linear", "peripteral", "tholos",
       "undetermined" >>

Rank(v) == CHOOSE k \in 1..Len(CodeUnitOrder) : CodeUnitOrder[k] = v

\* Array.prototype.sort(): the elements of arr in ascending order
RECURSIVE sort(_)
sort(arr) ==
    IF arr = <<>> THEN <<>>
    ELSE LET m == CHOOSE i \in 1..Len(arr) :
                    \A k \in 1..Len(arr) :
                       Rank(arr[i]) < Rank(arr[k]) \/ (Rank(arr[i]) = Rank(arr[k]) /\ i <= k)
             rest == [ k \in 1..(Len(arr) - 1) |-> IF k < m THEN arr[k] ELSE arr[k + 1] ]
         IN  <<arr[m]>> \o sort(rest)

\* tags.forEach(v => set.add(v)): a Set keeps insertion order and no duplicates
RECURSIVE AddAll(_, _)
AddAll(set, tags) ==
    IF tags = <<>> THEN set
    ELSE AddAll(IF Includes(set, Head(tags)) THEN set ELSE Append(set, Head(tags)),
                Tail(tags))

\* the Set of an attribute after the forEach loops over features and buildings
RECURSIVE CollectBuildings(_, _, _)
CollectBuildings(set, bs, attr) ==
    IF bs = <<>> THEN set
    ELSE CollectBuildings(AddAll(set, Head(bs)[attr]), Tail(bs), attr)

RECURSIVE CollectFeatures(_, _, _)
CollectFeatures(set, features, attr) ==
    IF features = <<>> THEN set
    ELSE CollectFeatures(CollectBuildings(set, Head(features).buildings, attr),
                         Tail(features), attr)

isAllowedMorphology(v) == v \in allowedMorphologies

\* useMemo allOptions: an object with the keys order, morphology and age
allOptions ==
    [ attr \in DropdownAttrs |->
        IF data = Null THEN <<>>
        ELSE LET set == CollectFeatures(<<>>, data[1], attr)
             IN  IF attr = "morphology" /\ variant = "doc_id"
                 THEN sort(SelectSeq(set, isAllowedMorphology))
                 ELSE sort(set) ]

\* the values offered by the dropdown of an attribute (as a set)
OptionValues(attr) ==
    IF data = Null THEN {}
    ELSE LET all == UNION { UNION { Range(data[1][i].buildings[j][attr]) :
                                      j \in 1..Len(data[1][i].buildings) } :
                            i \in 1..Len(data[1]) }
         IN  IF attr = "morphology" /\ variant = "doc_id"
             THEN all \cap allowedMorphologies
             ELSE all

\* the buildings the list of the side panel renders a button for
ListedBuildings ==
    IF siteFeat = Null \/ buildingObj # Null THEN <<>>
    ELSE IF variant = "doc_id" THEN originalBuildings
    ELSE siteFeat[1].buildings

ActiveCount(fs) ==
    LET RECURSIVE Sum(_)
        Sum(S) == IF S = {} THEN 0
                  ELSE LET a == CHOOSE x \in S : TRUE
                       IN  Cardinality(fs[a]) + Sum(S \ {a})
    IN  Sum(DOMAIN fs)

----------------------------------------------------------------------------
(* Initial state: the component is mounted, the fetch is in flight *)

Init ==
    /\ variant \in {"doc_id", "id"}
    /\ received \in Payloads
    /\ fetch = "pending"
    /\ raw = Null
    /\ data = Null
    /\ selectedSite = None
    /\ selectedBuilding = None
    /\ selectedPeriod = None
    /\ filters = [ a \in FilterAttrs(variant) |-> {} ]
    /\ filteredData = <<>>
    /\ map = "none"
    /\ src = Null
    /\ pendingInit = FALSE
    /\ pendingSync = FALSE
    /\ crashed = FALSE

\* effects of the last render have run: the next event can be handled
Idle == ~pendingInit /\ ~pendingSync

----------------------------------------------------------------------------
(* Load effect: fetch(...).then(r => r.json()).then(raw => ...).catch(...) *)

\* (variant of DataAfterLoad: setData(raw) runs before the sanitize loops)
DataAfterLoad_PublishFirst(rcv) == Some(SanitizeInPlace(rcv))

\* the value of `data` once the .then(raw => ...) callback has run
DataAfterLoad(rcv) ==
    IF SanitizeThrows(rcv) THEN Null ELSE Some(SanitizeInPlace(rcv))

\* the fetch or r.json() rejects: .catch(console.error), nothing is set
FetchReject ==
    /\ ~crashed
    /\ Idle
    /\ fetch = "pending"
    /\ fetch' = "failed"
    /\ UNCHANGED <<crashed, variant, received, raw, data, selectedSite, selectedBuilding,
                   selectedPeriod, filters, filteredData, map, src,
                   pendingInit, pendingSync>>

\* the body arrives and parses: sanitize in place, then setData(raw)
FetchResolve ==
    /\ ~crashed
    /\ Idle
    /\ fetch = "pending"
    /\ raw' = Some(SanitizeInPlace(received))
    /\ data' = DataAfterLoad(received)
    /\ fetch' = IF SanitizeThrows(received) THEN "failed" ELSE "resolved"
    /\ crashed' = RenderThrows(data', selectedPeriod)
    /\ filteredData' = IF crashed' THEN filteredData
                       ELSE ComputeFiltered(data', filters, selectedPeriod)
    /\ pendingInit' = (data' # Null)
    /\ pendingSync' = (data' # Null)
    /\ UNCHANGED <<variant, received, selectedSite, selectedBuilding,
                   selectedPeriod, filters, map, src>>

----------------------------------------------------------------------------
(* Effects *)

\* (variant of SyncExists: the lookup runs over the canonical dataset)
SyncExists_Canonical(fd, sel) ==
    data # Null /\ \E i \in 1..Len(data[1]) : \E j \in 1..Len(data[1][i].buildings) :
        Key(data[1][i].buildings[j]) = sel

\* filteredData.features.some(f => f.properties.buildings.some(b => key(b) === sel))
SyncExists(fd, sel) ==
    \E i \in 1..Len(fd) : \E j \in 1..Len(fd[i].buildings) :
        Key(fd[i].buildings[j]) = sel

\* (variant of SelectionAfterSync: the effect never clears the selection)
SelectionAfterSync_NoClear(fd, sel) == sel

\* the selection the consistency effect leaves
SelectionAfterSync(fd, sel) ==
    IF sel # None /\ ~SyncExists(fd, sel) THEN None ELSE sel

\* the data the consistency effect leaves in the map source
SourceAfterSync(fd) ==
    IF map = "loaded" THEN Some(fd) ELSE src

\* the passive effects of the last render, in the order of their definition:
\* "initialize Mapbox" (deps [data]), then "update map source & clear building"
\* (deps [filteredData, selected building])
FlushEffects ==
    /\ ~crashed
    /\ pendingInit \/ pendingSync
    /\ map' = IF pendingInit /\ data # Null /\ map = "none" THEN "created" ELSE map
    /\ src' = IF pendingSync THEN SourceAfterSync(filteredData) ELSE src
    /\ selectedBuilding' = IF pendingSync
                           THEN SelectionAfterSync(filteredData, selectedBuilding)
                           ELSE selectedBuilding
    /\ pendingInit' = FALSE
    /\ pendingSync' = (selectedBuilding' # selectedBuilding)
    /\ UNCHANGED <<crashed, variant, received, fetch, raw, data, selectedSite,
                   selectedPeriod, filters, filteredData>>

\* the data the 'load' callback gives the new source: the `data` of its closure
SourceAtLoad == data

\* map.current.on('load', ...): addSource, addLayer, register the click handler
MapLoad ==
    /\ ~crashed
    /\ Idle
    /\ map = "created"
    /\ map' = "loaded"
    /\ src' = SourceAtLoad
    /\ UNCHANGED <<crashed, variant, received, fetch, raw, data, selectedSite, selectedBuilding,
                   selectedPeriod, filters, filteredData, pendingInit, pendingSync>>

----------------------------------------------------------------------------
(* Event handlers *)

\* the sites the layer draws a point for
ClickableSites ==
    IF map = "loaded" /\ src # Null
    THEN { src[1][i].site : i \in 1..Len(src[1]) } ELSE {}

\* (variant of BuildingAfterSiteClick: the click handler keeps the building)
BuildingAfterSiteClick_Kept == selectedBuilding

\* the building selection a click on a site leaves
BuildingAfterSiteClick == None

\* map.current.on('click', 'sites-layer', e => ...)
SiteClick(s) ==
    /\ ~crashed
    /\ Idle
    /\ s \in ClickableSites
    /\ selectedSite' = s
    /\ selectedBuilding' = BuildingAfterSiteClick
    /\ pendingSync' = (selectedBuilding' # selectedBuilding)
    /\ UNCHANGED <<crashed, variant, received, fetch, raw, data, selectedPeriod, filters,
                   filteredData, map, src, pendingInit>>

\* (variant of toggleFilter: the value is added, never deleted)
toggleFilter_AddOnly(prev, attr, v) ==
    [ prev EXCEPT ![attr] = @ \cup {v} ]

\* the updater of setFilters in toggleFilter
toggleFilter(prev, attr, v) ==
    [ prev EXCEPT ![attr] = IF v \in @ THEN @ \ {v} ELSE @ \cup {v} ]

\* the (attribute, value) pairs a rendered button toggles: dropdown options,
\* active filter chips, tags of the building details
ToggleButtons ==
    UNION { { <<a, v>> : v \in OptionValues(a) } : a \in DropdownAttrs }
    \cup UNION { { <<a, v>> : v \in filters[a] } : a \in DOMAIN filters }
    \cup ( IF buildingObj = Null THEN {}
           ELSE UNION { { <<a, v>> : v \in { t \in Range(buildingObj[1][a]) :
                                               variant = "doc_id" \/ KeepTag(t) } } :
                        a \in DetailAttrs(variant) } )

ToggleFilter(attr, v) ==
    /\ ~crashed
    /\ Idle
    /\ <<attr, v>> \in ToggleButtons
    /\ v \in filters[attr] \/ ActiveCount(filters) < MaxActive
    /\ filters' = toggleFilter(filters, attr, v)
    /\ crashed' = RenderThrows(data, selectedPeriod)
    /\ filteredData' = IF crashed' THEN filteredData
                       ELSE ComputeFiltered(data, filters', selectedPeriod)
    /\ pendingSync' = TRUE
    /\ UNCHANGED <<variant, received, fetch, raw, data, selectedSite, selectedBuilding,
                   selectedPeriod, map, src, pendingInit>>

\* (variant of ClearedFilters: the age set survives clearFilters)
ClearedFilters_AgeKept ==
    [ a \in FilterAttrs(variant) |-> IF a = "age" THEN filters[a] ELSE {} ]

\* the Filter State clearFilters sets
ClearedFilters == [ a \in FilterAttrs(variant) |-> {} ]

\* (variant of ClearFilters: clearing the filters also leaves the site)
ClearFilters_ExitsSite ==
    /\ ~crashed
    /\ Idle
    /\ filters' = ClearedFilters
    /\ selectedPeriod' = None
    /\ selectedSite' = None
    /\ crashed' = RenderThrows(data, selectedPeriod')
    /\ filteredData' = IF crashed' THEN filteredData
                       ELSE ComputeFiltered(data, filters', selectedPeriod')
    /\ pendingSync' = TRUE
    /\ UNCHANGED <<variant, received, fetch, raw, data, selectedBuilding,
                   map, src, pendingInit>>

ClearFilters ==
    /\ ~crashed
    /\ Idle
    /\ filters' = ClearedFilters
    /\ selectedPeriod' = None
    /\ crashed' = RenderThrows(data, selectedPeriod')
    /\ filteredData' = IF crashed' THEN filteredData
                       ELSE ComputeFiltered(data, filters', selectedPeriod')
    /\ pendingSync' = TRUE
    /\ UNCHANGED <<variant, received, fetch, raw, data, selectedSite, selectedBuilding,
                   map, src, pendingInit>>

\* (variant of PeriodAfterClick: the handler stores the segment's first tag)
PeriodAfterClick_Tag(seg) ==
    IF selectedPeriod = seg THEN None ELSE find(seg)[1].tags[1]

\* (variant of PeriodAfterClick: a click on the active segment keeps it active)
PeriodAfterClick_NoToggle(seg) == seg

\* onClick of a timeline segment: setSelectedPeriod(active ? null : seg.id)
PeriodAfterClick(seg) == IF selectedPeriod = seg THEN None ELSE seg

\* (variant of PeriodClick: the derived dataset is written over the canonical one)
PeriodClick_InPlace(seg) ==
    /\ ~crashed
    /\ Idle
    /\ seg \in SegmentIds
    /\ selectedPeriod' = PeriodAfterClick(seg)
    /\ crashed' = RenderThrows(data, selectedPeriod')
    /\ filteredData' = IF crashed' THEN filteredData
                       ELSE ComputeFiltered(data, filters, selectedPeriod')
    /\ data' = IF data = Null THEN Null ELSE Some(filteredData')
    /\ pendingSync' = TRUE
    /\ UNCHANGED <<variant, received, fetch, raw, selectedSite, selectedBuilding,
                   filters, map, src, pendingInit>>

PeriodClick(seg) ==
    /\ ~crashed
    /\ Idle
    /\ seg \in SegmentIds
    /\ selectedPeriod' = PeriodAfterClick(seg)
    /\ crashed' = RenderThrows(data, selectedPeriod')
    /\ filteredData' = IF crashed' THEN filteredData
                       ELSE ComputeFiltered(data, filters, selectedPeriod')
    /\ pendingSync' = TRUE
    /\ UNCHANGED <<variant, received, fetch, raw, data, selectedSite, selectedBuilding,
                   filters, map, src, pendingInit>>

\* (variant of isVisible: the onClick has no visibility gate)
isVisible_Ungated(b) == TRUE

\* const isVisible = visibleDocIds.has(b.doc_id); the id-keyed list has no gate
isVisible(b) == variant = "id" \/ b.doc_id \in visibleDocIds

\* onClick of the j-th button of the building list
SelectBuilding(j) ==
    /\ ~crashed
    /\ Idle
    /\ j \in 1..Len(ListedBuildings)
    /\ selectedBuilding' = IF isVisible(ListedBuildings[j])
                           THEN Key(ListedBuildings[j])
                           ELSE selectedBuilding
    /\ pendingSync' = (selectedBuilding' # selectedBuilding)
    /\ UNCHANGED <<crashed, variant, received, fetch, raw, data, selectedSite, selectedPeriod,
                   filters, filteredData, map, src, pendingInit>>

\* the Back button of the building details
Back ==
    /\ ~crashed
    /\ Idle
    /\ buildingObj # Null
    /\ selectedBuilding' = None
    /\ pendingSync' = TRUE
    /\ UNCHANGED <<crashed, variant, received, fetch, raw, data, selectedSite, selectedPeriod,
                   filters, filteredData, map, src, pendingInit>>

\* (variant of ExitSite: only the site selection is cleared)
ExitSite_SiteOnly ==
    /\ ~crashed
    /\ Idle
    /\ selectedSite' = None
    /\ UNCHANGED <<crashed, variant, received, fetch, raw, data, selectedBuilding, selectedPeriod,
                   filters, filteredData, map, src, pendingInit, pendingSync>>

ExitSite ==
    /\ ~crashed
    /\ Idle
    /\ selectedSite' = None
    /\ selectedBuilding' = None
    /\ pendingSync' = (selectedBuilding # None)
    /\ UNCHANGED <<crashed, variant, received, fetch, raw, data, selectedPeriod, filters,
                   filteredData, map, src, pendingInit>>

----------------------------------------------------------------------------

Next ==
    \/ FetchReject
    \/ FetchResolve
    \/ FlushEffects
    \/ MapLoad
    \/ \E s \in ClickableSites : SiteClick(s)
    \/ \E b \in ToggleButtons : ToggleFilter(b[1], b[2])
    \/ ClearFilters
    \/ \E seg \in SegmentIds : PeriodClick(seg)
    \/ \E j \in 1..Len(ListedBuildings) : SelectBuilding(j)
    \/ Back
    \/ ExitSite

Spec == Init /\ [][Next]_vars

----------------------------------------------------------------------------
(* Vocabulary of the properties, stated without the operators of the model *)

\* the (site name, building record) pairs of a dataset
BuildingsOf(features) ==
    UNION { { <<features[i].site, features[i].buildings[j]>> :
                j \in 1..Len(features[i].buildings) } : i \in 1..Len(features) }

\* the building keys of a dataset under the site named s
KeysUnder(features, s) ==
    { Key(p[2]) : p \in { q \in BuildingsOf(features) : q[1] = s } }

\* the building keys of a dataset under any site
KeysOf(features) == { Key(p[2]) : p \in BuildingsOf(features) }

TagSet(b, attr) == { b[attr][k] : k \in 1..Len(b[attr]) }

\* the tag list of a period of the table
TagsOfPeriod(period) ==
    UNION { TagSet(timelineSegments[k], "tags") :
              k \in { n \in 1..Len(timelineSegments) : timelineSegments[n].id = period } }

\* the attributes each implementation filters on
FilteredAttributes ==
    IF variant = "doc_id" THEN {"order", "morphology", "age"}
    ELSE {"order", "morphology", "age", "date"}

\* a building passes every active attribute test and the period test
Retained(b) ==
    /\ \A attr \in FilteredAttributes :
          filters[attr] = {} \/ TagSet(b, attr) \cap filters[attr] # {}
    /\ selectedPeriod = None \/ TagSet(b, "age") \cap TagsOfPeriod(selectedPeriod) # {}

NoFilterActive ==
    /\ \A attr \in DOMAIN filters : filters[attr] = {}
    /\ selectedPeriod = None

\* a step that only changes the Filter State or the selected period
FilterStep == filters' # filters \/ selectedPeriod' # selectedPeriod

----------------------------------------------------------------------------
(* C1 *)

\* C1: in the doc_id variant, once the consistency effect has run, the selected
\* building is none or the doc_id of a building that the derived dataset holds
\* under the site named by selectedSite.
C1_SelectedBuildingInDerived ==
    (variant = "doc_id" /\ ~pendingSync) =>
        \/ selectedBuilding = None
        \/ selectedBuilding \in KeysUnder(filteredData, selectedSite)

\* a building is selected while the filters hide a part of the dataset
C1_Witness ==
    /\ variant = "doc_id"
    /\ ~pendingSync
    /\ selectedBuilding # None
    /\ data # Null
    /\ BuildingsOf(filteredData) # BuildingsOf(data[1])

----------------------------------------------------------------------------
(* C2 *)

\* a dataset holds the building selected by key sel: in the doc_id variant the
\* building with that doc_id under the site named s, in the id-keyed variant a
\* building with that id
HoldsSelected(features, s, sel) ==
    IF variant = "doc_id" THEN sel \in KeysUnder(features, s)
    ELSE sel \in KeysOf(features)

----------------------------------------------------------------------------
(* C3 *)

\* C3: a step sets the selected building only to the key of a building that the
\* derived dataset holds under the selected site, and a click on the list button
\* of a building that is not visible changes nothing.
C3_OnlyVisibleSelectable ==
    [][ /\ (selectedBuilding' # selectedBuilding /\ selectedBuilding' # None)
           => selectedBuilding' \in KeysUnder(filteredData, selectedSite)
        /\ \A j \in 1..Len(ListedBuildings) :
             ( /\ SelectBuilding(j)
               /\ Key(ListedBuildings[j]) \notin KeysUnder(filteredData, selectedSite) )
             => UNCHANGED vars ]_vars

\* the list shows a button for a building that the filters hide
C3_Witness ==
    /\ variant = "doc_id"
    /\ Idle
    /\ \E j \in 1..Len(ListedBuildings) :
          ListedBuildings[j].doc_id \notin KeysUnder(filteredData, selectedSite)

----------------------------------------------------------------------------
(* C4 *)

\* the buildings of the dataset, with the name of their site
CanonicalBuildings == IF data = Null THEN {} ELSE BuildingsOf(data[1])

\* C4: a building of the canonical dataset is in the derived dataset iff, for
\* every filtered attribute whose selected set is non-empty, one of its own tags
\* for the attribute is in the set, and no period is selected or one of its age
\* tags is in the tag list of the selected period (the attributes are order,
\* morphology, age, date in the id-keyed variant and order, morphology, age in
\* the doc_id variant).
C4_RetainedIffPassesAll ==
    \A p \in CanonicalBuildings :
        p \in BuildingsOf(filteredData) <=> Retained(p[2])

\* the id-keyed variant filters on a date, an order and a period at once, and
\* retains a part of the dataset
C4_Witness ==
    /\ variant = "id"
    /\ filters["date"] # {}
    /\ filters["order"] # {}
    /\ selectedPeriod # None
    /\ BuildingsOf(filteredData) # {}
    /\ BuildingsOf(filteredData) # CanonicalBuildings

----------------------------------------------------------------------------
(* C5 *)

SiteNamesOf(features) == { features[i].site : i \in 1..Len(features) }

\* C5: a site is in the derived dataset iff one of its buildings passes all
\* active filters; the site of the derived dataset carries exactly its passing
\* buildings, in their order; no site of the derived dataset has an empty
\* building list.
C5_SitePruning ==
    /\ data = Null => filteredData = <<>>
    /\ data # Null =>
         /\ \A i \in 1..Len(data[1]) :
              LET f == data[1][i]
              IN  /\ f.site \in SiteNamesOf(filteredData)
                       <=> \E j \in 1..Len(f.buildings) : Retained(f.buildings[j])
                  /\ \A k \in 1..Len(filteredData) :
                       filteredData[k].site = f.site
                       => filteredData[k].buildings = SelectSeq(f.buildings, Retained)
         /\ SiteNamesOf(filteredData) \subseteq SiteNamesOf(data[1])
    /\ \A k \in 1..Len(filteredData) : filteredData[k].buildings # <<>>

\* the filters prune one site and keep a part of the buildings of another
C5_Witness ==
    /\ data # Null
    /\ \E i \in 1..Len(data[1]) :
          /\ data[1][i].buildings # <<>>
          /\ data[1][i].site \notin SiteNamesOf(filteredData)
    /\ \E i \in 1..Len(data[1]) : \E k \in 1..Len(filteredData) :
          /\ filteredData[k].site = data[1][i].site
          /\ Len(filteredData[k].buildings) < Len(data[1][i].buildings)

----------------------------------------------------------------------------
(* C6 *)

HasBuildings(f) == f.buildings # <<>>

\* C6 as stated: with all attribute sets empty and no period selected the derived
\* dataset equals the canonical dataset, for every canonical dataset.
C6_EmptyFilterIdentity ==
    (data # Null /\ NoFilterActive) => filteredData = data[1]

\* C6 (amended): with all attribute sets empty and no period selected the derived
\* dataset is the canonical dataset without its sites that have no buildings
\* (same sites, same buildings, same order); it equals the canonical dataset when
\* every site has a building.
C6_EmptyFilterIdentityOfNonEmptySites ==
    (data # Null /\ NoFilterActive) =>
        /\ filteredData = SelectSeq(data[1], HasBuildings)
        /\ (\A i \in 1..Len(data[1]) : HasBuildings(data[1][i])) => filteredData = data[1]

\* a dataset whose sites all have buildings is shown unfiltered on the map
C6_Witness ==
    /\ data # Null
    /\ NoFilterActive
    /\ Len(data[1]) >= 2
    /\ \A i \in 1..Len(data[1]) : HasBuildings(data[1][i])
    /\ src = Some(filteredData)

----------------------------------------------------------------------------
(* C7 *)

\* a step that adds values to (removes values from) the set of attribute a and
\* changes nothing else of the inputs of the filter engine
OthersKept(a) ==
    /\ data' = data
    /\ selectedPeriod' = selectedPeriod
    /\ \A o \in DOMAIN filters \ {a} : filters'[o] = filters[o]

Adds(a) == filters[a] \subseteq filters'[a] /\ filters'[a] # filters[a] /\ OthersKept(a)

Removes(a) == filters'[a] \subseteq filters[a] /\ filters'[a] # filters[a] /\ OthersKept(a)

Shrinks == BuildingsOf(filteredData') \subseteq BuildingsOf(filteredData)

Grows == BuildingsOf(filteredData) \subseteq BuildingsOf(filteredData')

\* C7 as stated: adding a value to an attribute's selected set yields a subset of
\* the previous derived dataset, removing a value yields a superset.
C7_FilterMonotonicity ==
    [][ \A a \in DOMAIN filters : /\ Adds(a) => Shrinks
                                  /\ Removes(a) => Grows ]_vars

\* C7 (amended): adding a value to an attribute's selected set yields a subset of
\* the previous derived dataset when the set was empty and a superset when it
\* already held a value; removing a value yields a superset when it was the last
\* value of the set and a subset otherwise.
C7_FilterMonotonicityPerAttribute ==
    [][ \A a \in DOMAIN filters :
          /\ (Adds(a) /\ filters[a] = {}) => Shrinks
          /\ (Adds(a) /\ filters[a] # {}) => Grows
          /\ (Removes(a) /\ filters'[a] = {}) => Grows
          /\ (Removes(a) /\ filters'[a] # {}) => Shrinks ]_vars

\* an attribute has two selected values and the derived dataset holds a building
\* for each of them only
C7_Witness ==
    /\ data # Null
    /\ \E a \in DOMAIN filters :
          /\ Cardinality(filters[a]) >= 2
          /\ \A v \in filters[a] :
                \E p \in BuildingsOf(filteredData) :
                    TagSet(p[2], a) \cap filters[a] = {v}

----------------------------------------------------------------------------
(* C8 *)

\* the tag values of the canonical dataset
TagsInData ==
    UNION { UNION { TagSet(p[2], SanitizedAttrs[n]) : n \in 1..Len(SanitizedAttrs) } :
            p \in CanonicalBuildings }

\* C8: toggling the same attribute and value twice restores the Filter State; one
\* toggle makes the attribute's set its symmetric difference with {value} and
\* leaves the sets of the other attributes alone.
C8_ToggleTwiceRestores ==
    \A a \in DOMAIN filters : \A v \in TagsInData :
        LET once == toggleFilter(filters, a, v)
            twice == toggleFilter(once, a, v)
        IN  /\ twice = filters
            /\ DOMAIN once = DOMAIN filters
            /\ once[a] = (filters[a] \ {v}) \cup ({v} \ filters[a])
            /\ \A o \in DOMAIN filters \ {a} : once[o] = filters[o]

\* two attributes have a selected value, and a value of the dataset is not selected
C8_Witness ==
    /\ \E a, o \in DOMAIN filters : a # o /\ filters[a] # {} /\ filters[o] # {}
    /\ \E a \in DOMAIN filters : TagsInData \ filters[a] # {}

----------------------------------------------------------------------------
(* C9 *)

\* the values the sanitizer removes or fails on
PlaceholderTags ==
    {"", NullTag, NumberTag, "<NA>", "undetermined", "Undetermined", "UNDETERMINED"}

\* C9: once the fetch, the parse or the sanitization has failed, the load stays
\* failed, the canonical dataset is unset and the derived dataset is empty; a
\* published canonical dataset holds no value the sanitizer removes or fails on.
C9_FailedLoadStaysUnset ==
    /\ [](fetch = "failed" => (data = Null /\ filteredData = <<>>))
    /\ [][fetch = "failed" => fetch' = "failed"]_vars
    /\ [](data # Null =>
            /\ fetch = "resolved"
            /\ \A p \in BuildingsOf(data[1]) : \A n \in 1..Len(SanitizedAttrs) :
                 TagSet(p[2], SanitizedAttrs[n]) \cap PlaceholderTags = {})

\* the sanitization failed half way through the payload, and events followed
C9_Witness ==
    /\ fetch = "failed"
    /\ raw # Null
    /\ raw # Some(received)
    /\ selectedPeriod # None

----------------------------------------------------------------------------
(* C10 *)

\* C10: after sanitization the raw payload holds the attribute sequences that
\* were received, placeholder values included.
C10_RawPayloadNotMutated ==
    raw # Null => raw = Some(received)

----------------------------------------------------------------------------
(* C11 *)

NotPlaceholder(v) == v \notin PlaceholderTags

\* C11: in the published canonical dataset every attribute sequence of every
\* building is the received sequence without its empty, null, "undetermined"
\* (in any letter case) and "<NA>" values, the other tags in their received order;
\* so no such value is left.
C11_SanitizedTags ==
    data # Null =>
        /\ Len(data[1]) = Len(received)
        /\ \A i \in 1..Len(received) :
             /\ Len(data[1][i].buildings) = Len(received[i].buildings)
             /\ \A j \in 1..Len(received[i].buildings) :
                  \A n \in 1..Len(SanitizedAttrs) :
                    LET attr == SanitizedAttrs[n]
                        got == data[1][i].buildings[j][attr]
                    IN  /\ got = SelectSeq(received[i].buildings[j][attr], NotPlaceholder)
                        /\ \A k \in 1..Len(got) : got[k] \notin PlaceholderTags

\* a dataset is published from which the sanitizer removed capitalised,
\* upper-case and lower-case "undetermined", "<NA>", an empty and a null value
C11_Witness ==
    /\ data # Null
    /\ \E p \in BuildingsOf(received) :
          {"Undetermined", "Doric"} \subseteq TagSet(p[2], "order")
    /\ \E p \in BuildingsOf(received) : "UNDETERMINED" \in TagSet(p[2], "order")
    /\ \E p \in BuildingsOf(received) : {"", NullTag} \subseteq TagSet(p[2], "age")
    /\ \E p \in BuildingsOf(received) : "<NA>" \in TagSet(p[2], "morphology")
    /\ \E p \in BuildingsOf(received) : "undetermined" \in TagSet(p[2], "date")

----------------------------------------------------------------------------
(* C12 *)

\* C12: sanitizing a sanitized record again changes nothing: the payload object
\* after the sanitize loops is a fixed point of the loops, and so is the result
\* of sanitizing any payload that the loops accept.
C12_SanitizerIdempotent ==
    /\ raw # Null => SanitizeInPlace(raw[1]) = raw[1]
    /\ \A P \in Payloads :
         ~SanitizeThrows(P) => SanitizeInPlace(SanitizeInPlace(P)) = SanitizeInPlace(P)

\* the loops ran over a payload and removed values from it
C12_Witness ==
    /\ fetch = "resolved"
    /\ raw # Null
    /\ raw # Some(received)
    /\ raw = data

----------------------------------------------------------------------------
(* C13 *)

\* C13: in each of the two implementations the morphology option list holds no
\* value outside the allow-list of typology terms.
C13_MorphologyOptionsAllowed ==
    OptionValues("morphology") \subseteq allowedMorphologies

----------------------------------------------------------------------------
(* C14 *)

----------------------------------------------------------------------------
(* C15 *)

\* C15: once the map source exists and the pending effects have run, the data
\* held by the map source is the current derived dataset.
C15_SourceIsDerivedDataset ==
    (src # Null /\ Idle) => src = Some(filteredData)

----------------------------------------------------------------------------
(* C16 *)

\* C16: a click on a site of the map sets selectedSite to that site and the
\* selected building to none, from every state, also when the site is the one
\* already selected.
C16_SiteClickClearsBuilding ==
    [][ \A s \in ClickableSites :
          SiteClick(s) => (selectedSite' = s /\ selectedBuilding' = None) ]_vars

\* a building is selected under a site that the map still draws, so the site can
\* be clicked again
C16_Witness ==
    /\ Idle
    /\ selectedBuilding # None
    /\ selectedSite \in ClickableSites
    /\ buildingObj # Null

----------------------------------------------------------------------------
(* C17 *)

\* C17: exitSite sets selectedSite and the selected building to none and leaves
\* the Filter State, the selected period, the canonical dataset and the derived
\* dataset as they are.
C17_ExitSiteClearsBoth ==
    [][ ExitSite => ( /\ selectedSite' = None
                      /\ selectedBuilding' = None
                      /\ filters' = filters
                      /\ selectedPeriod' = selectedPeriod
                      /\ data' = data
                      /\ filteredData' = filteredData ) ]_vars

\* exitSite can be called with a site, a building, a filter value and a period set
C17_Witness ==
    /\ Idle
    /\ selectedSite # None
    /\ selectedBuilding # None
    /\ selectedPeriod # None
    /\ \E a \in DOMAIN filters : filters[a] # {}

----------------------------------------------------------------------------
(* C18 *)

\* C18: toggleFilter, clearFilters, a period click, selectBuilding, Back and the
\* effects leave selectedSite as it is; selectedSite changes only by a site click
\* (to the clicked site) or by exitSite (to none).
C18_SelectedSiteLifecycle ==
    [][ /\ ( \/ \E b \in ToggleButtons : ToggleFilter(b[1], b[2])
             \/ ClearFilters
             \/ \E seg \in SegmentIds : PeriodClick(seg)
             \/ \E j \in 1..Len(ListedBuildings) : SelectBuilding(j)
             \/ Back
             \/ FlushEffects )
           => selectedSite' = selectedSite
        /\ selectedSite' # selectedSite
           => ( \/ selectedSite' \in ClickableSites /\ SiteClick(selectedSite')
                \/ selectedSite' = None /\ ExitSite ) ]_vars

\* the filters have pruned the selected site from the derived dataset and the
\* effects have run: the site is still selected
C18_Witness ==
    /\ Idle
    /\ data # Null
    /\ selectedSite \in SiteNamesOf(data[1])
    /\ selectedSite \notin SiteNamesOf(filteredData)
    /\ ~NoFilterActive

----------------------------------------------------------------------------
(* C19 *)

\* period ids that are not segment ids: every tag of the table, a label, a
\* capitalised id and the empty string
UnknownPeriodIds ==
    UNION { Range(timelineSegments[k].tags) : k \in 1..Len(timelineSegments) }
      \cup {"Archaic & Early", "ARCHAIC", "earlyempire", ""}

\* C19: the lookup of the tags of a period id that is not one of the six segment
\* ids throws (and a render with such a truthy id selected throws with it), the
\* lookup of a segment id yields that segment's tags; in every reachable state
\* the selected period is none or one of the six segment ids and no render has
\* thrown.
C19_UnknownPeriodNeverSelected ==
    /\ \A p \in UnknownPeriodIds :
         /\ p \notin SegmentIds
         /\ LookupThrows(p)
         /\ (data # Null /\ PeriodTruthy(p)) => RenderThrows(data, p)
    /\ \A k \in 1..Len(timelineSegments) :
         /\ ~LookupThrows(timelineSegments[k].id)
         /\ ~RenderThrows(data, timelineSegments[k].id)
         /\ periodTags(timelineSegments[k].id) = Range(timelineSegments[k].tags)
    /\ Cardinality(SegmentIds) = 6
    /\ selectedPeriod \in SegmentIds \cup {None}
    /\ ~crashed

\* a period is selected over loaded data and the render has looked its tags up
C19_Witness ==
    /\ data # Null
    /\ selectedPeriod \in SegmentIds
    /\ filteredData # <<>>
    /\ filteredData # data[1]

----------------------------------------------------------------------------
(* C20 *)

\* C20: once the canonical dataset is published, no step changes it or the parsed
\* payload: it stays the sanitised payload of the load, whatever the derived
\* dataset becomes.
C20_CanonicalReadOnly ==
    /\ [](data # Null => data = Some(SanitizeInPlace(received)))
    /\ [][data # Null => (data' = data /\ raw' = raw)]_vars

\* filters and a period are set, a building is selected and the derived dataset
\* differs from the canonical one
C20_Witness ==
    /\ Idle
    /\ data # Null
    /\ filteredData # data[1]
    /\ filteredData # <<>>
    /\ selectedBuilding # None
    /\ selectedPeriod # None
    /\ ~NoFilterActive

----------------------------------------------------------------------------
(* C21 *)

Attributes == {"order", "morphology", "age", "date"}

\* the distinct tag values of an attribute over all buildings of all sites
DistinctTags(attr) == UNION { TagSet(p[2], attr) : p \in CanonicalBuildings }

\* a sequence without duplicates, in ascending lexicographic order
SortedDistinct(opts) ==
    \A i, k \in 1..Len(opts) : i < k => Rank(opts[i]) < Rank(opts[k])

\* C21: for each of order, morphology, age and date the option index holds a
\* duplicate-free, lexicographically sorted sequence of exactly the distinct tag
\* values of that attribute over all buildings of all sites (morphology: those in
\* the allow-list), and the empty sequence while the canonical dataset is unset.
C21_OptionIndex ==
    \A attr \in Attributes :
       /\ attr \in DOMAIN allOptions
       /\ SortedDistinct(allOptions[attr])
       /\ Range(allOptions[attr]) =
             IF data = Null THEN {}
             ELSE IF attr = "morphology" THEN DistinctTags(attr) \cap allowedMorphologies
             ELSE DistinctTags(attr)

----------------------------------------------------------------------------
(* C22 *)

\* C22: in the id-keyed variant, when a site is selected and the selected id is
\* not among the derived-dataset buildings of that site, the consistency effect
\* that runs next clears the building selection, also when a building with the
\* same id is in the derived dataset under another site.
C22_ConsistencyScopedToSite ==
    [][ ( /\ variant = "id"
          /\ pendingSync
          /\ selectedSite # None
          /\ selectedBuilding # None
          /\ selectedBuilding \notin KeysUnder(filteredData, selectedSite)
          /\ FlushEffects )
        => selectedBuilding' = None ]_vars

----------------------------------------------------------------------------
(* C23 *)

\* C23: the selected period is a single value, none or one segment id; a click on
\* a timeline segment makes it that segment's id when the segment is not the
\* active one (whatever period was active) and none when it is the active one,
\* and leaves the attribute filter sets and selectedSite as they are.
C23_SinglePeriodToggle ==
    /\ [](selectedPeriod = None \/ selectedPeriod \in SegmentIds)
    /\ [][ \A seg \in SegmentIds :
             PeriodClick(seg) =>
                /\ selectedPeriod # seg => selectedPeriod' = seg
                /\ selectedPeriod = seg => selectedPeriod' = None
                /\ filters' = filters
                /\ selectedSite' = selectedSite ]_vars

\* a period is active while a site is selected and an attribute value is filtered:
\* a click on its segment clears it, a click on another segment replaces it
C23_Witness ==
    /\ Idle
    /\ data # Null
    /\ selectedPeriod \in SegmentIds
    /\ selectedSite # None
    /\ \E a \in DOMAIN filters : filters[a] # {}

----------------------------------------------------------------------------
(* C24 *)

\* C24: clearFilters makes every attribute set of the Filter State empty and the
\* selected period none and leaves selectedSite as it is; the derived dataset
\* recomputed in that step holds every building of the canonical dataset.
C24_ClearFiltersResets ==
    [][ ClearFilters =>
          /\ \A a \in DOMAIN filters' : filters'[a] = {}
          /\ DOMAIN filters' = DOMAIN filters
          /\ selectedPeriod' = None
          /\ selectedSite' = selectedSite
          /\ BuildingsOf(filteredData') = CanonicalBuildings ]_vars

\* the state clearFilters leaves when a site is selected and the map source still
\* holds a filtered dataset
C24_Witness ==
    /\ pendingSync
    /\ data # Null
    /\ NoFilterActive
    /\ selectedSite # None
    /\ BuildingsOf(filteredData) = CanonicalBuildings
    /\ src # Null
    /\ BuildingsOf(src[1]) # CanonicalBuildings
    /\ selectedSite \notin SiteNamesOf(src[1])

----------------------------------------------------------------------------
(* C25 *)

\* C25: in every state of the doc_id variant, also between a filter change and
\* the run of the consistency effect, the building whose details are rendered is
\* none or a building of the derived dataset under selectedSite whose doc_id is
\* the selected one; it passes the active filters.
C25_DisplayedBuildingIsRetained ==
    (variant = "doc_id" /\ buildingObj # Null) =>
        /\ selectedSite # None
        /\ selectedBuilding # None
        /\ <<selectedSite, buildingObj[1]>> \in BuildingsOf(filteredData)
        /\ buildingObj[1].doc_id = selectedBuilding
        /\ Retained(buildingObj[1])

\* a filter change has removed the selected building, the consistency effect has
\* not run yet: the site's list is rendered, not the building's details
C25_Witness ==
    /\ variant = "doc_id"
    /\ pendingSync
    /\ selectedBuilding # None
    /\ selectedBuilding \in KeysUnder(data[1], selectedSite)
    /\ siteFeat # Null
    /\ buildingObj = Null

----------------------------------------------------------------------------
(* C26 *)

\* C26: in every reachable state a selected building implies a selected site and
\* a selected site implies a loaded canonical dataset, so the render-time lookup
\* of the selected site in data.features never runs on an unset dataset.
C26_SelectionNeedsData ==
    /\ selectedBuilding # None => selectedSite # None
    /\ selectedSite # None => (data # Null /\ fetch = "resolved" /\ map = "loaded")

\* the details of a building are shown: site and building are selected over
\* loaded data
C26_Witness ==
    /\ selectedSite # None
    /\ selectedBuilding # None
    /\ buildingObj # Null
    /\ originalSiteFeat # Null
    /\ data # Null

====
